---- MODULE Spec2Model ----
(***************************************************************************)
(* Review Synthesis Engine of Movie-explorer-backend.                      *)
(*                                                                         *)
(* The model follows ReviewSynthesisService (src/jobs/backgroundJobs.js,   *)
(* lines 18-270), the two module-level service objects (the controller's   *)
(* and the background job's), the ReviewSynthesis schema                   *)
(* (src/models/ReviewSynthesis.js) and the collectors.                     *)
(*                                                                         *)
(* Every `await` of the code is a yield point: a call record holds the     *)
(* position (pc) of one async invocation, and one action resolves one      *)
(* awaited promise and runs the synchronous code up to the next await.     *)
(*                                                                         *)
(* The store is the MongoDB collection.  It outlives the process, so Init  *)
(* draws it from the documents that satisfy the schema.  A Mongoose        *)
(* document is a local copy: save() validates it, then writes only the     *)
(* paths modified since the last load/save ($set) and the array pushes     *)
(* made since then ($push).                                                *)
(***************************************************************************)
EXTENDS Integers, Sequences, FiniteSets, TLC

\* ---------------------------------------------------------------- bounds
Movies == {1, 2, 3}
MaxCalls == 2          \* requests and scheduler ticks in one behaviour
MaxFaults == 1         \* database errors injected in one behaviour
MaxTicks == 1          \* scheduler ticks when the scheduler is followed alone

\* ------------------------------------------------------ program constants
RefreshDays == 7       \* 7 * 24 * 60 * 60 * 1000 ms, in days
CronLimit == 10        \* reviewService.updatePopularMovies(10)
now == 8               \* Date.now(), in days: the day of the behaviour

Services == {"http", "cron"}
NoReviewsSummary == "No reviews found for this movie yet."
NoSummary == "undefined"
ReviewCounts == {0, 9}

\* ------------------------------------------------------------- the schema
\* ReviewSynthesisSchema: the persisted fields the orchestrator reads or
\* writes.  exists = FALSE is "no document" (findOne gives null).
\* sources is the sum of the per-source counts (sources.tmdb + reddit +
\* letterboxd + internal), breakdown the sum of the five counts of
\* sentiment.breakdown.
NoRec ==
  [exists |-> FALSE, status |-> "pending", log |-> << >>,
   needsUpdate |-> FALSE, lastUpdated |-> 0, summary |-> NoSummary,
   reviewCount |-> 0, popularityScore |-> 0, sources |-> 0,
   breakdown |-> 0]

\* summary: { type: String, required: true }
Validate(doc) == doc.summary # NoSummary

\* ReviewSynthesisSchema.methods.needsRefresh
needsRefresh(doc, today) ==
  doc.needsUpdate \/ doc.lastUpdated < today - RefreshDays

\* ---------------------------------------------------- Mongoose documents
\* A local document: the stored fields plus Mongoose's change tracking
\* (isNew, the modified paths, the number of unsaved pushes).
NoDoc ==
  [exists |-> FALSE, status |-> "pending", log |-> << >>,
   needsUpdate |-> FALSE, lastUpdated |-> 0, summary |-> NoSummary,
   reviewCount |-> 0, popularityScore |-> 0, sources |-> 0,
   breakdown |-> 0,
   isNew |-> FALSE, dirty |-> {}, pend |-> 0]

\* Model.findOne({ movieId }): hydrate the stored document.
Hydrate(rec) ==
  [exists |-> rec.exists, status |-> rec.status, log |-> rec.log,
   needsUpdate |-> rec.needsUpdate, lastUpdated |-> rec.lastUpdated,
   summary |-> rec.summary, reviewCount |-> rec.reviewCount,
   popularityScore |-> rec.popularityScore, sources |-> rec.sources,
   breakdown |-> rec.breakdown,
   isNew |-> FALSE, dirty |-> {}, pend |-> 0]

\* new ReviewSynthesis({ movieId, movieTitle, movieYear }): schema defaults.
NewDoc(today) ==
  [exists |-> TRUE, status |-> "pending", log |-> << >>,
   needsUpdate |-> FALSE, lastUpdated |-> today, summary |-> NoSummary,
   reviewCount |-> 0, popularityScore |-> 0, sources |-> 0,
   breakdown |-> 0,
   isNew |-> TRUE, dirty |-> {}, pend |-> 0]

\* doc.path = value: the path is marked modified when the value changes.
SetPath(doc, f, v) ==
  IF doc.isNew \/ doc[f] # v
  THEN [doc EXCEPT ![f] = v, !.dirty = @ \cup {f}]
  ELSE doc

\* doc.processingLog.push(entry)
PushLog(doc, e) == [doc EXCEPT !.log = Append(@, e), !.pend = @ + 1]

\* The entries pushed since the last load/save.
PendingLog(doc) ==
  SubSeq(doc.log, Len(doc.log) - doc.pend + 1, Len(doc.log))

\* A save that writes the whole local array instead ($set).
SaveLogOverwrite(rec, doc) == doc.log

\* The processingLog a save leaves in the store: $push of the new entries.
SaveLog(rec, doc) == rec.log \o PendingLog(doc)

\* The document a successful doc.save() leaves in the store.
SaveRec(rec, doc) ==
  IF doc.isNew
  THEN [exists |-> TRUE, status |-> doc.status, log |-> doc.log,
        needsUpdate |-> doc.needsUpdate, lastUpdated |-> doc.lastUpdated,
        summary |-> doc.summary, reviewCount |-> doc.reviewCount,
        popularityScore |-> doc.popularityScore,
        sources |-> doc.sources, breakdown |-> doc.breakdown]
  ELSE LET Path(f) == IF f \in doc.dirty THEN doc[f] ELSE rec[f]
       IN  [exists |-> TRUE, status |-> Path("status"),
            log |-> SaveLog(rec, doc),
            needsUpdate |-> Path("needsUpdate"),
            lastUpdated |-> Path("lastUpdated"),
            summary |-> Path("summary"),
            reviewCount |-> Path("reviewCount"),
            popularityScore |-> Path("popularityScore"),
            sources |-> Path("sources"),
            breakdown |-> Path("breakdown")]

\* The local document after a successful save.
Saved(doc) == [doc EXCEPT !.isNew = FALSE, !.dirty = {}, !.pend = 0]

\* save() rejects: ValidationError (required path missing) or E11000
\* (movieId: unique) on insert.
SaveRejects(rec, doc) == ~Validate(doc) \/ (doc.isNew /\ rec.exists)

\* -------------------------------------------------- the metadata provider
\* fetchMovieDetails(movieId): vote_average, vote_count, popularity.
MovieDetails(m) ==
  CASE m = 1 -> [vote_average |-> 8, vote_count |-> 999, popularity |-> 99]
    [] m = 2 -> [vote_average |-> 5, vote_count |-> 9, popularity |-> 9]
    [] OTHER -> [vote_average |-> 5, vote_count |-> 99, popularity |-> 0]

\* Math.log10 on the powers of ten the model uses.
Log10(n) ==
  CASE n = 1 -> 0 [] n = 10 -> 1 [] n = 100 -> 2 [] n = 1000 -> 3

\* Math.round of tenths/10 (round half up).
RoundTenths(t) == (t + 5) \div 10

\* ReviewSynthesisService.calculatePopularityScore
calculatePopularityScore(d, reviewCount) ==
  RoundTenths(3 * d.vote_average + 3 * Log10(d.vote_count + 1)
              + 2 * Log10(d.popularity + 1) + 2 * Log10(reviewCount + 1))


\* ------------------------------------------------------------------ state
VARIABLES
  store,          \* the ReviewSynthesis collection: movieId -> document
  isProcessing,   \* service object -> its isProcessing Set
  calls,          \* the requests and scheduler ticks: slot -> call record
  faults,         \* database errors so far
  collector,      \* one collectAllReviews invocation and its four sources
  rating,         \* one extractRatingFromText invocation
  analyzer        \* one analyzeReviews invocation and what is stored of it

vars == <<store, isProcessing, calls, faults, collector, rating, analyzer>>

\* What the orchestrator's steps leave alone: the invocations of the
\* collector's and the analyzer's functions that are followed on their own.
aside == <<collector, rating, analyzer>>

Slots == 1..MaxCalls

\* A request or a scheduler tick, with the generateSynthesis invocation it
\* makes.  entry: "get" = getMovieReviewSynthesis -> getSynthesis, "post" =
\* generateMovieReviewSynthesis, "cron" = updatePopularMovies.
\* pc is the await the code is suspended at.  ret/retDoc are the settled
\* result of getSynthesis (via: the branch it took), kept while its
\* un-awaited generateSynthesis goes on.  how/cause are the exit path of the
\* last generateSynthesis invocation and the origin of its exception.
\* For updatePopularMovies: limit is its argument, batch is moviesToUpdate,
\* queue is what the for loop has not reached yet, visited are the ids it
\* has called generateSynthesis for and outcomes how those calls settled.
\* marked records that markForUpdate reached the store for the movie while
\* the current generateSynthesis invocation was admitted.
IdleCall ==
  [entry |-> "none", svc |-> "http", movieId |-> 1, force |-> FALSE,
   pc |-> "idle", doc |-> NoDoc, admitted |-> FALSE, reviews |-> 0,
   ret |-> "none", retDoc |-> NoDoc, via |-> "none",
   how |-> "none", cause |-> "none", queue |-> << >>,
   returned |-> 0, hadRecord |-> FALSE, regen |-> FALSE,
   limit |-> 0, batch |-> << >>, visited |-> << >>, outcomes |-> << >>,
   marked |-> FALSE]

NewCall(e, s, m, f, p) ==
  [IdleCall EXCEPT !.entry = e, !.svc = s, !.movieId = m, !.force = f,
                   !.pc = p]

Used == {c \in Slots : calls[c].pc # "idle"}
NextSlot == Cardinality(Used) + 1

\* The awaits inside generateSynthesis (try block and catch block).
TryPcs ==
  {"g_find", "g_details", "g_save1", "g_save2", "g_collect", "g_savezero",
   "g_save3", "g_analyze", "g_save4"}
CatchPcs == {"c_find", "c_save"}
RunPcs == TryPcs \cup CatchPcs

\* ------------------------------------------- how generateSynthesis returns
\* A POST handler that drops the promise without a rejection handler.
CaughtExceptPost(call) == call.entry # "post"

\* The callers of generateSynthesis that handle its rejection: getSynthesis
\* awaits it inside its try block (lines 209-233) and attaches
\* .catch(console.error) to the un-awaited call (line 220), the POST handler
\* attaches .catch (controller line 51), updatePopularMovies awaits it
\* inside the try block of the loop body (lines 244-250).  An unhandled
\* rejection reaches process.on('unhandledRejection') (server.js line 59),
\* which closes the server and exits: pc "crashed".
Caught(call) == call.entry \in {"get", "post", "cron"}

\* The caller of a settled generateSynthesis goes on.  getSynthesis that
\* awaits it (line 225) returns its value, and null when it rejected
\* (line 232); the un-awaited callers (line 220, controller line 51) only
\* log a rejection; updatePopularMovies (lines 243-251) awaits the 2000 ms
\* delay after a fulfilled call and goes straight to the next movie after a
\* rejected one.
Settle(call, outcome) ==
  LET r == [call EXCEPT !.returned = @ + 1, !.doc = NoDoc,
                        !.admitted = FALSE]
  IN  CASE outcome = "error" /\ ~Caught(call) ->
             [r EXCEPT !.pc = "crashed"]
        [] call.entry = "cron" ->
             [r EXCEPT !.pc = IF outcome = "error" THEN "u_next"
                              ELSE "u_delay",
                       !.outcomes = Append(@, outcome)]
        [] call.entry = "get" /\ call.via = "awaited" ->
             [r EXCEPT !.pc = "done",
                       !.ret = IF outcome = "doc" THEN "doc" ELSE "null",
                       !.retDoc = IF outcome = "doc" THEN call.doc
                                  ELSE NoDoc]
        [] OTHER -> [r EXCEPT !.pc = "done"]

\* A head without the isProcessing check.
StartRunUnguarded(call, isP) ==
  [call EXCEPT !.pc = "g_find", !.admitted = FALSE, !.doc = NoDoc,
               !.how = "none", !.cause = "none", !.marked = FALSE]

\* The synchronous head of generateSynthesis, lines 32-40: return null
\* when the id is in isProcessing, else await findOne.
StartRun(call, isP) ==
  IF call.movieId \in isP[call.svc]
  THEN Settle([call EXCEPT !.how = "noop", !.cause = "none",
                            !.marked = FALSE], "null")
  ELSE [call EXCEPT !.pc = "g_find", !.admitted = FALSE, !.doc = NoDoc,
                    !.how = "none", !.cause = "none", !.marked = FALSE]

\* updatePopularMovies, the for loop: call generateSynthesis(id, true) for
\* the next movie of the batch.
CronAdvance(call, isP) ==
  IF call.queue = << >>
  THEN [call EXCEPT !.pc = "done"]
  ELSE StartRun([call EXCEPT !.movieId = Head(call.queue),
                             !.queue = Tail(call.queue),
                             !.visited = Append(@, Head(call.queue))], isP)

\* A loop that a rejection leaves.
ContinueAborts(call, isP) ==
  IF call.pc = "u_next" THEN [call EXCEPT !.pc = "done"] ELSE call

\* A caught rejection takes updatePopularMovies to the next movie in the
\* same synchronous stretch.
Continue(call, isP) ==
  IF call.pc = "u_next" THEN CronAdvance(call, isP) ELSE call

\* generateSynthesis returned a document (lines 44, 101, 140).
ReturnDoc(call, h) == Settle([call EXCEPT !.how = h], "doc")

\* generateSynthesis rethrew (line 165).
Rethrow(call, h, isP) ==
  Continue(Settle([call EXCEPT !.how = h], "error"), isP)

\* Entering the catch block (lines 142-165) with the exception's origin.
Catch(call, why, isP) ==
  LET r == [call EXCEPT !.cause = why]
  IN  IF call.movieId \in isP[call.svc]
      THEN [r EXCEPT !.pc = "c_find"]
      ELSE Rethrow(r, "error", isP)

\* ------------------------------------------------------ collectAllReviews
\* ReviewCollector (src/utils/reviewCollector.js).  One invocation of
\* collectAllReviews: the four collectors are called, each goes on at its
\* own awaits, and Promise.allSettled settles when all four have.
MaxItems == 1            \* items in one response of a source

Subreddits == 4          \* ['movies', 'MovieReviews', 'flicks', 'TrueFilm']
LetterboxdLimit == 20    \* reviews.slice(0, 20)

SourceNames == {"tmdb", "reddit", "letterboxd", "internal"}

\* What an awaited request of a collector can do: answer with a payload
\* of the expected shape, throw (network or HTTP error), or answer with a
\* payload the code trips over (a TypeError inside the try block).
Outcomes == {"ok", "exception", "malformed"}

\* The items of a well-formed payload.  keep: the item passes the
\* collector's content filter (Reddit: selftext longer than 200 and
\* isReviewContent; Letterboxd: review text longer than 100).
Payloads ==
  UNION {{[i \in 1..n |-> [id |-> i, keep |-> k[i]]] : k \in [1..n -> BOOLEAN]} :
         n \in 0..MaxItems}

\* The review object a collector builds from an item of page k.
Review(s, k, item) == [source |-> s, page |-> k, id |-> item.id]

\* payload.map(item => ({ source, ... }))
MapReviews(s, k, items) ==
  [i \in 1..Len(items) |-> Review(s, k, items[i])]

\* The items that pass the content filter.
Kept(items) ==
  LET Test(item) == item.keep
  IN  SelectSeq(items, Test)

\* The promise of one collector.  step/acc: the request it waits for and
\* the reviews gathered so far; outcome: what its last request did.
PendingSource ==
  [status |-> "pending", value |-> << >>, step |-> 1, acc |-> << >>,
   outcome |-> "none"]

\* return reviews (the async function fulfils).
Fulfil(src, reviews) ==
  [src EXCEPT !.status = "fulfilled", !.value = reviews, !.acc = << >>,
              !.outcome = "ok"]

\* catch (error) { console.error(...); return []; }
OnError(src, outcome) ==
  [src EXCEPT !.status = "fulfilled", !.value = << >>, !.acc = << >>,
              !.outcome = outcome]

IdleCollector ==
  [pc |-> "idle", src |-> [s \in SourceNames |-> PendingSource],
   out |-> << >>]

\* result.status === 'fulfilled' ? result.value : []
FulfilledValue(r) == IF r.status = "fulfilled" THEN r.value ELSE << >>

\* A concatenation that puts the internal reviews first.
allReviewsInternalFirst(src) ==
  FulfilledValue(src["internal"]) \o FulfilledValue(src["tmdb"])
    \o FulfilledValue(src["reddit"]) \o FulfilledValue(src["letterboxd"])

\* Lines 241-246: allReviews, the spread of the four settled results.
allReviews(src) ==
  FulfilledValue(src["tmdb"]) \o FulfilledValue(src["reddit"])
    \o FulfilledValue(src["letterboxd"]) \o FulfilledValue(src["internal"])

\* The collector waits for source s at its request number k.
Waits(s, k) ==
  /\ collector.pc = "waiting"
  /\ collector.src[s].status = "pending"
  /\ collector.src[s].step = k

Rest == <<store, isProcessing, calls, faults, rating, analyzer>>

\* collectAllReviews, lines 231-240: the four collectors are called and
\* Promise.allSettled is awaited.
collectAllReviews ==
  /\ collector.pc = "idle"
  /\ collector' = [collector EXCEPT !.pc = "waiting"]
  /\ UNCHANGED Rest

\* collectTMDbReviews, lines 23-49: the request settled.
collectTMDbReviews ==
  /\ Waits("tmdb", 1)
  /\ \E o \in Outcomes : \E items \in Payloads :
       collector' = [collector EXCEPT !.src["tmdb"] =
         IF o = "ok" THEN Fulfil(@, MapReviews("tmdb", 1, items))
         ELSE OnError(@, o)]
  /\ UNCHANGED Rest

\* collectRedditReviews, lines 52-105: the search of one subreddit
\* settled; after the last one the gathered reviews are returned.
collectRedditReviews ==
  /\ \E k \in 1..Subreddits :
       /\ Waits("reddit", k)
       /\ \E o \in Outcomes : \E posts \in Payloads :
            LET src == collector.src["reddit"]
                got == src.acc \o MapReviews("reddit", k, Kept(posts))
            IN  collector' = [collector EXCEPT !.src["reddit"] =
                  IF o # "ok" THEN OnError(@, o)
                  ELSE IF k = Subreddits THEN Fulfil(@, got)
                  ELSE [@ EXCEPT !.step = k + 1, !.acc = got]]
  /\ UNCHANGED Rest

\* collectLetterboxdReviews, lines 108-126: the search page settled; no
\* film link: return [].
collectLetterboxdSearch ==
  /\ Waits("letterboxd", 1)
  /\ \E o \in Outcomes : \E movieLink \in BOOLEAN :
       collector' = [collector EXCEPT !.src["letterboxd"] =
         IF o # "ok" THEN OnError(@, o)
         ELSE IF ~movieLink THEN Fulfil(@, << >>)
         ELSE [@ EXCEPT !.step = 2]]
  /\ UNCHANGED Rest

\* collectLetterboxdReviews, lines 128-162: the reviews page settled.
collectLetterboxdReviews ==
  /\ Waits("letterboxd", 2)
  /\ \E o \in Outcomes : \E items \in Payloads :
       LET reviews == MapReviews("letterboxd", 1, Kept(items))
           n == IF Len(reviews) < LetterboxdLimit THEN Len(reviews)
                ELSE LetterboxdLimit
       IN  collector' = [collector EXCEPT !.src["letterboxd"] =
             IF o = "ok" THEN Fulfil(@, SubSeq(reviews, 1, n))
             ELSE OnError(@, o)]
  /\ UNCHANGED Rest

\* collectInternalReviews, lines 165-186: the Discussion query settled.
collectInternalReviews ==
  /\ Waits("internal", 1)
  /\ \E o \in Outcomes : \E items \in Payloads :
       collector' = [collector EXCEPT !.src["internal"] =
         IF o = "ok" THEN Fulfil(@, MapReviews("internal", 1, items))
         ELSE OnError(@, o)]
  /\ UNCHANGED Rest

\* collectAllReviews, lines 234-250: allSettled settled; return allReviews.
collectAllReviewsReturn ==
  /\ collector.pc = "waiting"
  /\ \A s \in SourceNames : collector.src[s].status # "pending"
  /\ collector' = [collector EXCEPT !.pc = "returned",
                                    !.out = allReviews(collector.src)]
  /\ UNCHANGED Rest

\* -------------------------------------------------- extractRatingFromText
\* ReviewCollector.extractRatingFromText (reviewCollector.js lines
\* 202-224).  A text is a sequence of tokens: numbers, the slash, white
\* space and words.
MaxPhrases == 2          \* phrases in one text

Num(v) == [k |-> "num", v |-> v, w |-> ""]
Word(w) == [k |-> "word", v |-> 0, w |-> w]
Slash == [k |-> "slash", v |-> 0, w |-> ""]
Space == [k |-> "space", v |-> 0, w |-> ""]
End == [k |-> "end", v |-> 0, w |-> ""]

\* "8/10", "3/5", "4 stars", "4 star", "4 STARS", "9 out of 10", "3/ 5",
\* "12/10", "7/100", "great", "stars", "2".
Phrases ==
  {<<Num(8), Slash, Num(10)>>,
   <<Num(3), Slash, Num(5)>>,
   <<Num(4), Space, Word("stars")>>,
   <<Num(4), Space, Word("star")>>,
   <<Num(4), Space, Word("STARS")>>,
   <<Num(9), Space, Word("out"), Space, Word("of"), Space, Num(10)>>,
   <<Num(3), Slash, Space, Num(5)>>,
   <<Num(12), Slash, Num(10)>>,
   <<Num(7), Slash, Num(100)>>,
   <<Word("great")>>,
   <<Word("stars")>>,
   <<Num(2)>>}

\* The texts of up to n phrases, separated by a blank.
RECURSIVE TextsOf(_)
TextsOf(n) ==
  IF n = 0 THEN {<< >>}
  ELSE LET shorter == TextsOf(n - 1)
       IN  shorter \cup
           {IF t = << >> THEN ph ELSE t \o <<Space>> \o ph :
              t \in shorter, ph \in Phrases}

Texts == TextsOf(MaxPhrases)

\* The token at position i, End past the end of the text.
At(t, i) == IF i \in 1..Len(t) THEN t[i] ELSE End

\* \s* from position i: the first position that holds no white space.
SkipSpace(t, i) ==
  CHOOSE j \in i..(Len(t) + 1) :
    /\ At(t, j).k # "space"
    /\ \A h \in i..(j - 1) : At(t, h).k = "space"

\* The digits of the number begin with 10, with 5.
Starts10(tok) == tok.k = "num" /\ tok.v \in {10, 100}
Starts5(tok) == tok.k = "num" /\ tok.v \in {5, 50}

\* The /i flag: letters match in either case.
Lower(w) == IF w = "STARS" THEN "stars" ELSE w

\* The patterns of line 204-209, in their order, matched from position i:
\* 1: (\d+)\s*\/\s*10   2: (\d+)\s*\/\s*5   3: (\d+)\s*stars?
\* 4: (\d+)\s*out\s*of\s*10
MatchAt(p, t, i) ==
  /\ At(t, i).k = "num"
  /\ LET a == SkipSpace(t, i + 1)
         b == SkipSpace(t, a + 1)
         c == SkipSpace(t, b + 1)
     IN  CASE p = 1 -> At(t, a).k = "slash" /\ Starts10(At(t, b))
           [] p = 2 -> At(t, a).k = "slash" /\ Starts5(At(t, b))
           [] p = 3 -> /\ At(t, a).k = "word"
                       /\ Lower(At(t, a).w) \in {"star", "stars"}
           [] p = 4 -> /\ At(t, a).k = "word" /\ At(t, a).w = "out"
                       /\ At(t, b).k = "word" /\ At(t, b).w = "of"
                       /\ Starts10(At(t, c))

Matches(p, t) == \E i \in 1..Len(t) : MatchAt(p, t, i)

Least(S) == CHOOSE x \in S : \A y \in S : x <= y

\* text.match(pattern)[1], parsed: the number of the leftmost match.
Captured(p, t) == t[Least({i \in 1..Len(t) : MatchAt(p, t, i)})].v

\* text.includes('/5') || text.includes('stars')
IncludesFiveScale(t) ==
  \/ \E i \in 1..Len(t) : t[i].k = "slash" /\ At(t, i + 1).k = "num"
                          /\ At(t, i + 1).v \in {5, 50}
  \/ \E i \in 1..Len(t) : t[i].k = "word" /\ t[i].w = "stars"

\* Math.min(10, Math.max(0, rating))
Clamp(r) == IF r > 10 THEN 10 ELSE IF r < 0 THEN 0 ELSE r

\* return null
Null == -1

\* extractRatingFromText(text)
extractRatingFromText(t) ==
  LET hits == {p \in 1..4 : Matches(p, t)}
  IN  IF hits = {} THEN Null
      ELSE LET r == Captured(Least(hits), t)
           IN  Clamp(IF IncludesFiveScale(t) THEN r * 2 ELSE r)

IdleRating == [pc |-> "idle", text |-> << >>, pattern |-> 0, out |-> Null]

\* extractRatingFromText is called with a text.
ExtractCall ==
  /\ rating.pc = "idle"
  /\ \E t \in Texts :
       rating' = [rating EXCEPT !.pc = "called", !.text = t]
  /\ UNCHANGED <<store, isProcessing, calls, faults, collector, analyzer>>

\* It returns; pattern is the first pattern that matched (0: none).
ExtractReturn ==
  /\ rating.pc = "called"
  /\ LET hits == {p \in 1..4 : Matches(p, rating.text)}
     IN  rating' = [rating EXCEPT
           !.pc = "returned",
           !.pattern = IF hits = {} THEN 0 ELSE Least(hits),
           !.out = extractRatingFromText(rating.text)]
  /\ UNCHANGED <<store, isProcessing, calls, faults, collector, analyzer>>

\* ---------------------------------------------------------- analyzeReviews
\* AIReviewAnalyzer (src/unnamed/part_002) and selectFeaturedReviews.
\* A collected review: content is the length of its content string,
\* comparative is what sentimentAnalyzer.analyze(content).comparative
\* gives, in hundredths; author tells the reviews of one run apart.
MaxReviews == 3
RawLimit == 10
FeaturedCount == 3
SummaryTop == 5
MinContent == 100
MinCombined == 100
FeaturedContent == 300

Classes ==
  {"very_positive", "positive", "neutral", "negative", "very_negative"}

Kinds ==
  {[source |-> "tmdb", author |-> 0, content |-> 50, helpful_votes |-> 0,
    comparative |-> 50],
   [source |-> "reddit", author |-> 0, content |-> 101, helpful_votes |-> 0,
    comparative |-> 10],
   [source |-> "letterboxd", author |-> 0, content |-> 150,
    helpful_votes |-> 3, comparative |-> -10],
   [source |-> "internal", author |-> 0, content |-> 400,
    helpful_votes |-> 0, comparative |-> -50],
   [source |-> "reddit", author |-> 0, content |-> 100, helpful_votes |-> 9,
    comparative |-> -51],
   [source |-> "tmdb", author |-> 0, content |-> 250, helpful_votes |-> 0,
    comparative |-> 9]}

\* The lists of at most n reviews.
RECURSIVE ListsOf(_)
ListsOf(n) ==
  IF n = 0 THEN {<< >>}
  ELSE ListsOf(n - 1)
         \cup {Append(l, k) : l \in {x \in ListsOf(n - 1) : Len(x) = n - 1},
                              k \in Kinds}

\* Runs of RawLimit reviews of one kind, for the inputs longer than the
\* rawReviews slice.
Fillers == {[i \in 1..RawLimit |-> k] : k \in Kinds}

Signed(l) == [i \in 1..Len(l) |-> [l[i] EXCEPT !.author = i]]

\* What collectAllReviews can hand to analyzeReviews.
Inputs ==
  {Signed(l) : l \in ListsOf(MaxReviews)}
    \cup {Signed(f \o l) : f \in Fillers, l \in ListsOf(MaxReviews)}

\* comparative >= h/100, for the fraction q = <<numerator, denominator>>.
AtLeast(q, h) == q[1] * 100 >= h * q[2]

\* A classification with exclusive bounds.
classifySentimentExclusive(q) ==
  IF q[1] * 100 > 50 * q[2] THEN "very_positive"
  ELSE IF q[1] * 100 > 10 * q[2] THEN "positive"
  ELSE IF q[1] * 100 > (-10) * q[2] THEN "neutral"
  ELSE IF q[1] * 100 > (-50) * q[2] THEN "negative"
  ELSE "very_negative"

\* AIReviewAnalyzer.classifySentiment
classifySentiment(q) ==
  IF AtLeast(q, 50) THEN "very_positive"
  ELSE IF AtLeast(q, 10) THEN "positive"
  ELSE IF AtLeast(q, -10) THEN "neutral"
  ELSE IF AtLeast(q, -50) THEN "negative"
  ELSE "very_negative"

\* AIReviewAnalyzer.analyzeSentiment: { ...review, sentiment: {...} }
WithSentiment(r) ==
  [source |-> r.source, author |-> r.author, content |-> r.content,
   helpful_votes |-> r.helpful_votes,
   sentiment |-> [comparative |-> r.comparative,
                  classification |->
                    classifySentiment(<<r.comparative, 100>>)]]

analyzeSentiment(reviews) ==
  [i \in 1..Len(reviews) |-> WithSentiment(reviews[i])]

\* if (review.sentiment)
HasSentiment(r) == "sentiment" \in DOMAIN r

\* (helpful_votes || 0) + content.length / 100, in hundredths.
Score(r) == r.helpful_votes * 100 + r.content

\* Array.prototype.sort with (a, b) => scoreB - scoreA: descending, stable.
RECURSIVE InsertByScore(_, _)
InsertByScore(r, s) ==
  IF s = << >> THEN <<r>>
  ELSE IF Score(Head(s)) >= Score(r)
       THEN <<Head(s)>> \o InsertByScore(r, Tail(s))
       ELSE <<r>> \o s

RECURSIVE SortByScore(_)
SortByScore(s) ==
  IF s = << >> THEN << >>
  ELSE InsertByScore(s[Len(s)], SortByScore(SubSeq(s, 1, Len(s) - 1)))

\* review.content.length > 100
Long(r) == r.content > MinContent

\* .slice(0, n)
Slice(s, n) == SubSeq(s, 1, IF Len(s) < n THEN Len(s) ELSE n)

\* .filter(long).sort(by score).slice(0, n)
TopReviews(reviews, n) == Slice(SortByScore(SelectSeq(reviews, Long)), n)

RECURSIVE SumContent(_)
SumContent(s) ==
  IF s = << >> THEN 0 ELSE Head(s).content + SumContent(Tail(s))

\* AIReviewAnalyzer.combineReviewsForSummary: the length of the joined
\* text.
combineReviewsForSummary(reviews) ==
  LET top == TopReviews(reviews, SummaryTop)
  IN  IF top = << >> THEN 0 ELSE SumContent(top) + Len(top) - 1

\* Math.round(x / y * 100), x, y >= 0.
RoundPercent(x, y) == (200 * x + y) \div (2 * y)

NoText == [kind |-> "none", total |-> 0, percent |-> 0]

\* AIReviewAnalyzer.fallbackSummary: "Based on <total> reviews analyzed,
\* <percent>% of viewers had a positive opinion. ..."
fallbackSummary(reviews) ==
  IF Len(reviews) = 0 THEN [NoText EXCEPT !.kind = "No reviews available."]
  ELSE LET positive ==
             {i \in 1..Len(reviews) :
                /\ HasSentiment(reviews[i])
                /\ reviews[i].sentiment.classification
                     \in {"very_positive", "positive"}}
       IN  [kind |-> "template", total |-> Len(reviews),
            percent |-> RoundPercent(Cardinality(positive), Len(reviews))]

\* How the request to the summarization provider ends: a summary_text, a
\* response without one, an error, or the 10000 ms timeout.
Answers == {"summary", "empty", "error", "timeout"}

\* AIReviewAnalyzer.summarizeReviews, by the provider's answer.
summarizeReviews(reviews, answer) ==
  IF combineReviewsForSummary(reviews) < MinCombined
  THEN [NoText EXCEPT !.kind = "Not enough review content"]
  ELSE IF answer = "summary"
       THEN [NoText EXCEPT !.kind = "summary_text"]
       ELSE fallbackSummary(reviews)

\* AIReviewAnalyzer.getSentimentBreakdown
getSentimentBreakdown(reviews) ==
  [c \in Classes |->
     Cardinality({i \in 1..Len(reviews) :
                    /\ HasSentiment(reviews[i])
                    /\ reviews[i].sentiment.classification = c})]

\* AIReviewAnalyzer.getSourceBreakdown
getSourceBreakdown(reviews) ==
  [s \in SourceNames |->
     Cardinality({i \in 1..Len(reviews) : reviews[i].source = s})]

RECURSIVE SumComparative(_)
SumComparative(s) ==
  IF s = << >> THEN 0
  ELSE Head(s).sentiment.comparative + SumComparative(Tail(s))

\* AIReviewAnalyzer.calculateOverallSentiment: classifySentiment of
\* totalScore / reviews.length.
calculateOverallSentiment(reviews) ==
  classifySentiment(<<SumComparative(reviews), 100 * Len(reviews)>>)

\* analyzeReviews([]), lines 329-339.
EmptyAnalysis ==
  [summary |-> [NoText EXCEPT !.kind = "No reviews available for analysis."],
   overall |-> "neutral",
   breakdown |-> [c \in Classes |-> 0],
   reviewCount |-> 0,
   sources |-> [s \in SourceNames |-> 0],
   rawReviews |-> << >>]

\* AIReviewAnalyzer.analyzeReviews, lines 341-373.
analyzeReviews(reviews, answer) ==
  IF Len(reviews) = 0 THEN EmptyAnalysis
  ELSE LET reviewsWithSentiment == analyzeSentiment(reviews)
       IN  [summary |-> summarizeReviews(reviews, answer),
            overall |-> calculateOverallSentiment(reviewsWithSentiment),
            breakdown |-> getSentimentBreakdown(reviewsWithSentiment),
            reviewCount |-> Len(reviews),
            sources |-> getSourceBreakdown(reviews),
            rawReviews |-> Slice(reviewsWithSentiment, RawLimit)]

\* The featured review made of a review: content.substring(0, 300) + '...'
Featured(r) ==
  [source |-> r.source, author |-> r.author,
   content |-> (IF r.content < FeaturedContent THEN r.content
                ELSE FeaturedContent) + 3,
   sentiment |-> IF HasSentiment(r) THEN r.sentiment.classification
                 ELSE "neutral",
   helpful_votes |-> r.helpful_votes]

\* ReviewSynthesisService.selectFeaturedReviews(reviews, count = 3)
selectFeaturedReviews(reviews) ==
  LET top == TopReviews(reviews, FeaturedCount)
  IN  [i \in 1..Len(top) |-> Featured(top[i])]

IdleAnalyzer ==
  [pc |-> "idle", reviews |-> << >>, answer |-> "none",
   analysis |-> EmptyAnalysis, featured |-> << >>]

Others == <<store, isProcessing, calls, faults, collector, rating>>

\* analyzeReviews is called: the four synchronous analyses run and
\* summarizeReviews is awaited (Promise.all, line 349).
AnalyzeCall ==
  /\ analyzer.pc = "idle"
  /\ analyzer' = [analyzer EXCEPT !.pc = "summarizing"]
  /\ UNCHANGED Others

\* summarizeReviews settles and analyzeReviews returns the analysis.
AnalyzeReturn ==
  /\ analyzer.pc = "summarizing"
  /\ \E answer \in Answers :
       analyzer' = [analyzer EXCEPT
         !.pc = "returned",
         !.answer = IF Len(analyzer.reviews) = 0
                       \/ combineReviewsForSummary(analyzer.reviews)
                            < MinCombined
                    THEN "none" ELSE answer,
         !.analysis = analyzeReviews(analyzer.reviews, answer)]
  /\ UNCHANGED Others

\* generateSynthesis, line 122: the featured reviews assigned to the
\* document come from analysis.rawReviews.
AssignFeatured ==
  /\ analyzer.pc = "returned"
  /\ Len(analyzer.reviews) > 0
  /\ analyzer' = [analyzer EXCEPT
       !.pc = "assigned",
       !.featured = selectFeaturedReviews(analyzer.analysis.rawReviews)]
  /\ UNCHANGED Others

\* ---------------------------------------------------------------- Init
\* The documents an earlier process life can have left in the collection:
\* completed (fresh, or older than the refresh window) or failed.
InitRecs(m) ==
  {r \in [exists : {TRUE}, status : {"completed", "failed"},
          log : {<<"started", "completed">>},
          needsUpdate : {FALSE}, lastUpdated : {0, now},
          summary : {"summary"}, reviewCount : {9},
          popularityScore : {calculatePopularityScore(MovieDetails(m), 9)},
          sources : {9}, breakdown : {9}] :
     r.status = "failed" => r.lastUpdated = 0}

\* The stores in which the movies of S have a document or none, and the
\* other movies have none.
InitStores(S) ==
  {f \in [Movies -> UNION {InitRecs(m) : m \in Movies} \cup {NoRec}] :
     \A m \in Movies :
       f[m] \in (IF m \in S THEN InitRecs(m) ELSE {}) \cup {NoRec}}

\* Spec follows the requests, marks and scheduler ticks for one movie.
Requested == {1}

Init ==
  /\ store \in InitStores(Requested)
  /\ isProcessing = [s \in Services |-> {}]
  /\ calls = [c \in Slots |-> IdleCall]
  /\ faults = 0
  /\ collector = IdleCollector
  /\ rating = IdleRating
  /\ analyzer = IdleAnalyzer

\* A database operation either succeeds or rejects with a driver error.
DbOutcome(fault) ==
  /\ fault => faults < MaxFaults
  /\ faults' = IF fault THEN faults + 1 ELSE faults

\* ----------------------------------------------------- the HTTP handlers
\* getMovieReviewSynthesis -> getSynthesis(movieId): up to the await of
\* findOne (line 210).
GetStart(m) ==
  /\ NextSlot \in Slots
  /\ calls' = [calls EXCEPT ![NextSlot] =
                 NewCall("get", "http", m, FALSE, "s_find")]
  /\ UNCHANGED <<store, isProcessing, faults, aside>>

\* The background run of another getSynthesis (line 220) is in flight.
RegenInFlight(m, c) ==
  \E d \in Slots \ {c} :
    /\ calls[d].pc \in RunPcs
    /\ calls[d].movieId = m
    /\ calls[d].via = "swr"

\* getSynthesis rejected inside its try block: line 232, return null.
GetFails(call) ==
  [call EXCEPT !.pc = "done", !.ret = "null", !.via = "error",
               !.doc = NoDoc]

\* A getSynthesis that awaits the forced run before it returns.
BackgroundAwaited(call, isP) ==
  StartRun([call EXCEPT !.force = TRUE, !.via = "awaited"], isP)

\* getSynthesis, lines 220-222: generateSynthesis(movieId, true) is called
\* and not awaited, the document is returned.
Background(call, isP) ==
  StartRun([call EXCEPT !.force = TRUE, !.via = "swr", !.ret = "doc",
                        !.retDoc = call.doc], isP)

\* getSynthesis, line 225: generateSynthesis(movieId) is awaited.
Awaited(call, isP) ==
  StartRun([call EXCEPT !.force = FALSE, !.via = "awaited"], isP)

\* getSynthesis, lines 210-229: findOne settled.
GetFind(c) ==
  /\ calls[c].pc = "s_find"
  /\ \E fault \in BOOLEAN :
       /\ DbOutcome(fault)
       /\ LET call == calls[c]
              m == call.movieId
              doc == Hydrate(store[m])
              seen == [call EXCEPT !.hadRecord = doc.exists,
                                   !.regen = doc.exists
                                             /\ RegenInFlight(m, c)]
          IN  calls' = [calls EXCEPT ![c] =
                IF fault
                THEN GetFails(call)
                ELSE IF ~doc.exists \/ needsRefresh(doc, now)
                THEN IF doc.exists /\ doc.status = "completed"
                     THEN [seen EXCEPT !.pc = "s_save",
                             !.doc = SetPath(doc, "needsUpdate", TRUE)]
                     ELSE Awaited(seen, isProcessing)
                ELSE [seen EXCEPT !.pc = "done", !.ret = "doc",
                                  !.via = "fresh", !.retDoc = doc]]
  /\ UNCHANGED <<store, isProcessing, aside>>

\* getSynthesis, lines 217-222: the save of needsUpdate settled.
GetSave(c) ==
  /\ calls[c].pc = "s_save"
  /\ \E fault \in BOOLEAN :
       /\ DbOutcome(fault)
       /\ LET call == calls[c]
              m == call.movieId
          IN  IF fault \/ SaveRejects(store[m], call.doc)
              THEN /\ calls' = [calls EXCEPT ![c] = GetFails(call)]
                   /\ store' = store
              ELSE /\ store' = [store EXCEPT ![m] = SaveRec(@, call.doc)]
                   /\ calls' = [calls EXCEPT ![c] =
                         Background([call EXCEPT !.doc = Saved(call.doc)],
                                    isProcessing)]
  /\ UNCHANGED <<isProcessing, aside>>

\* generateMovieReviewSynthesis: generateSynthesis(movieId, true), not
\* awaited, rejection logged.
PostStart(m) ==
  /\ NextSlot \in Slots
  /\ calls' = [calls EXCEPT ![NextSlot] =
                 StartRun(NewCall("post", "http", m, TRUE, "idle"),
                          isProcessing)]
  /\ UNCHANGED <<store, isProcessing, faults, aside>>

\* markForUpdate: updateOne({ movieId }, { $set: { needsUpdate: true } });
\* a rejection is logged and swallowed.
MarkForUpdate(m) ==
  /\ store[m].exists
  /\ \E fault \in BOOLEAN :
       /\ DbOutcome(fault)
       /\ store' = IF fault THEN store
                   ELSE [store EXCEPT ![m].needsUpdate = TRUE]
       /\ calls' = [c \in Slots |->
                      IF ~fault /\ calls[c].pc \in RunPcs
                         /\ calls[c].admitted /\ calls[c].movieId = m
                      THEN [calls[c] EXCEPT !.marked = TRUE]
                      ELSE calls[c]]
  /\ UNCHANGED <<isProcessing, aside>>

\* ------------------------------------------------------ generateSynthesis
\* Lines 40-50: findOne settled; serve the cached document, or add the id
\* to isProcessing and ask the metadata provider.
GenFind(c) ==
  /\ calls[c].pc = "g_find"
  /\ \E fault \in BOOLEAN :
       /\ DbOutcome(fault)
       /\ LET call == calls[c]
              m == call.movieId
              doc == Hydrate(store[m])
          IN  IF fault
              THEN /\ calls' = [calls EXCEPT ![c] =
                                  Catch(call, "db", isProcessing)]
                   /\ isProcessing' = isProcessing
              ELSE IF doc.exists /\ ~call.force /\ ~needsRefresh(doc, now)
              THEN /\ calls' = [calls EXCEPT ![c] =
                         ReturnDoc([call EXCEPT !.doc = doc], "cached")]
                   /\ isProcessing' = isProcessing
              ELSE /\ isProcessing' =
                         [isProcessing EXCEPT ![call.svc] = @ \cup {m}]
                   /\ calls' = [calls EXCEPT ![c] =
                         [call EXCEPT !.pc = "g_details", !.doc = doc,
                                      !.admitted = TRUE]]
  /\ UNCHANGED <<store, aside>>

\* Lines 50-72: fetchMovieDetails settled (it has an 8 s timeout, and
\* throws on every failure); create the document if there is none, set
\* status processing, push the started entry, save.
GenDetails(c) ==
  /\ calls[c].pc = "g_details"
  /\ \E ok \in BOOLEAN :
       LET call == calls[c]
           doc0 == IF call.doc.exists THEN call.doc ELSE NewDoc(now)
           doc1 == PushLog(SetPath(doc0, "status", "processing"), "started")
       IN  calls' = [calls EXCEPT ![c] =
             IF ok
             THEN [call EXCEPT !.pc = "g_save1", !.doc = doc1]
             ELSE Catch(call, "details", isProcessing)]
  /\ UNCHANGED <<store, isProcessing, faults, aside>>

\* A release that is forgotten.
ReleaseForgotten(isP, svc, m) == isP

\* this.isProcessing.delete(movieId)
Release(isP, svc, m) == [isP EXCEPT ![svc] = @ \ {m}]

\* An awaited synthesis.save() of the try block rejects: with a driver
\* error, or by validation / the unique index.
SaveFails(c, fault) ==
  fault \/ SaveRejects(store[calls[c].movieId], calls[c].doc)

\* The rejected save throws into the catch block.
SaveThrows(c, fault) ==
  /\ calls' = [calls EXCEPT ![c] =
        Catch(calls[c], IF fault THEN "db" ELSE "validation", isProcessing)]
  /\ store' = store
  /\ isProcessing' = isProcessing
  /\ UNCHANGED aside

\* The invocation after its save succeeded.
AfterSave(c) == [calls[c] EXCEPT !.doc = Saved(calls[c].doc)]

\* The save succeeded: the store gets the changes and the run goes on as
\* `after`, having deleted the id from isProcessing where the code does.
SaveDone(c, after, release) ==
  /\ store' = [store EXCEPT ![calls[c].movieId] = SaveRec(@, calls[c].doc)]
  /\ isProcessing' =
       IF release
       THEN Release(isProcessing, calls[c].svc, calls[c].movieId)
       ELSE isProcessing
  /\ calls' = [calls EXCEPT ![c] = after]
  /\ UNCHANGED aside

\* Lines 72-82: the save of the started entry settled; push the collection
\* entry and save.
AfterStarted(call) ==
  [call EXCEPT !.pc = "g_save2", !.doc = PushLog(call.doc, "collection")]

GenSaveStarted(c) ==
  /\ calls[c].pc = "g_save1"
  /\ \E fault \in BOOLEAN :
       /\ DbOutcome(fault)
       /\ IF SaveFails(c, fault)
          THEN SaveThrows(c, fault)
          ELSE SaveDone(c, AfterStarted(AfterSave(c)), FALSE)

\* Lines 82-88: the save settled; call collectAllReviews.
AfterCollection(call) == [call EXCEPT !.pc = "g_collect"]

GenSaveCollection(c) ==
  /\ calls[c].pc = "g_save2"
  /\ \E fault \in BOOLEAN :
       /\ DbOutcome(fault)
       /\ IF SaveFails(c, fault)
          THEN SaveThrows(c, fault)
          ELSE SaveDone(c, AfterCollection(AfterSave(c)), FALSE)

\* A zero-review branch that reports a failure.
ZeroResultFailed(doc) ==
  PushLog(SetPath(doc, "status", "failed"), "error")

\* Lines 91-98: the document of the zero-review branch.
ZeroResult(doc) ==
  PushLog(
    SetPath(
      SetPath(
        SetPath(doc, "status", "completed"),
        "summary", NoReviewsSummary),
      "reviewCount", 0),
    "warning")

\* Lines 84-110: collectAllReviews settled (it never rejects) with n
\* reviews.  No review: complete with the empty-state summary.  Otherwise
\* push the analysis entry and save.  The source requests of the
\* collectors carry no timeout, so this promise may never settle.
GenCollect(c) ==
  /\ calls[c].pc = "g_collect"
  /\ \E n \in ReviewCounts :
       LET call == calls[c]
       IN  calls' = [calls EXCEPT ![c] =
             IF n = 0
             THEN [call EXCEPT !.pc = "g_savezero",
                               !.doc = ZeroResult(call.doc),
                               !.reviews = 0]
             ELSE [call EXCEPT !.pc = "g_save3", !.reviews = n,
                               !.doc = PushLog(call.doc, "analysis")]]
  /\ UNCHANGED <<store, isProcessing, faults, aside>>

\* Lines 99-101: the save of the zero-review result settled; release the
\* id and return the document.
AfterZero(call) == ReturnDoc(call, "zero")

GenSaveZero(c) ==
  /\ calls[c].pc = "g_savezero"
  /\ \E fault \in BOOLEAN :
       /\ DbOutcome(fault)
       /\ IF SaveFails(c, fault)
          THEN SaveThrows(c, fault)
          ELSE SaveDone(c, AfterZero(AfterSave(c)), TRUE)

\* Lines 110-112: the save of the analysis entry settled; call
\* analyzeReviews.
AfterAnalysis(call) == [call EXCEPT !.pc = "g_analyze"]

GenSaveAnalysis(c) ==
  /\ calls[c].pc = "g_save3"
  /\ \E fault \in BOOLEAN :
       /\ DbOutcome(fault)
       /\ IF SaveFails(c, fault)
          THEN SaveThrows(c, fault)
          ELSE SaveDone(c, AfterAnalysis(AfterSave(c)), FALSE)


\* Lines 112-136: analyzeReviews settled; on success assign the results,
\* push the completed entry and save.
GenAnalyze(c) ==
  /\ calls[c].pc = "g_analyze"
  /\ \E ok \in BOOLEAN :
       LET call == calls[c]
           m == call.movieId
           a1 == SetPath(call.doc, "summary", "summary")
           a2 == SetPath(a1, "reviewCount", call.reviews)
           a3 == SetPath(a2, "status", "completed")
           a4 == SetPath(a3, "lastUpdated", now)
           a5 == SetPath(a4, "needsUpdate", FALSE)
           a6 == SetPath(a5, "popularityScore",
                   calculatePopularityScore(MovieDetails(m), call.reviews))
           a7 == SetPath(a6, "sources", call.reviews)
           a8 == SetPath(a7, "breakdown", call.reviews)
       IN  calls' = [calls EXCEPT ![c] =
             IF ok
             THEN [call EXCEPT !.pc = "g_save4",
                               !.doc = PushLog(a8, "completed")]
             ELSE Catch(call, "analysis", isProcessing)]
  /\ UNCHANGED <<store, isProcessing, faults, aside>>

\* Lines 136-140: the save of the results settled; release the id and
\* return the document.
AfterCompleted(call) == ReturnDoc(call, "success")

GenSaveCompleted(c) ==
  /\ calls[c].pc = "g_save4"
  /\ \E fault \in BOOLEAN :
       /\ DbOutcome(fault)
       /\ IF SaveFails(c, fault)
          THEN SaveThrows(c, fault)
          ELSE SaveDone(c, AfterCompleted(AfterSave(c)), TRUE)

\* Lines 151-155: the error entry, { step: 'error', status: 'error',
\* message: error.message }, by the origin of the caught exception.
ErrorEntry(cause) ==
  CASE cause = "details" -> "error: details"
    [] cause = "analysis" -> "error: analysis"
    [] cause = "validation" -> "error: validation"
    [] OTHER -> "error: db"

\* Lines 146-165, the catch block of a run whose id is in isProcessing:
\* its findOne settled.  A document: set status failed, push the error
\* entry, save.  No document, or findOne rejected (inner catch): release
\* the id and rethrow.
CatchFind(c) ==
  /\ calls[c].pc = "c_find"
  /\ \E fault \in BOOLEAN :
       /\ DbOutcome(fault)
       /\ LET call == calls[c]
              m == call.movieId
              doc == Hydrate(store[m])
              released == Release(isProcessing, call.svc, m)
          IN  IF fault
              THEN /\ isProcessing' = released
                   /\ calls' = [calls EXCEPT ![c] =
                         Rethrow(call, "saveError", released)]
              ELSE IF doc.exists
              THEN /\ isProcessing' = isProcessing
                   /\ calls' = [calls EXCEPT ![c] =
                         [call EXCEPT !.pc = "c_save",
                            !.doc = PushLog(SetPath(doc, "status", "failed"),
                                            ErrorEntry(call.cause))]]
              ELSE /\ isProcessing' = released
                   /\ calls' = [calls EXCEPT ![c] =
                         Rethrow(call, "error", released)]
  /\ UNCHANGED <<store, aside>>

\* Lines 156-165: the save of the failed status settled, or rejected
\* (inner catch); release the id and rethrow.
CatchSave(c) ==
  /\ calls[c].pc = "c_save"
  /\ \E fault \in BOOLEAN :
       /\ DbOutcome(fault)
       /\ LET call == calls[c]
              m == call.movieId
              released == Release(isProcessing, call.svc, m)
              rejected == fault \/ SaveRejects(store[m], call.doc)
          IN  /\ store' = IF rejected THEN store
                          ELSE [store EXCEPT ![m] = SaveRec(@, call.doc)]
              /\ isProcessing' = released
              /\ calls' = [calls EXCEPT ![c] =
                    Rethrow([call EXCEPT !.doc = IF rejected THEN call.doc
                                                 ELSE Saved(call.doc)],
                            IF rejected THEN "saveError" ELSE "error",
                            released)]
  /\ UNCHANGED aside

\* ------------------------------------------------------- the scheduler
\* The orderings .find(stale).sort({ popularityScore: -1 }) can return
\* (documents with equal scores come in any order).
RECURSIVE Orderings(_)
Orderings(S) ==
  IF S = {} THEN {<< >>}
  ELSE UNION {{<<m>> \o q : q \in Orderings(S \ {m})} :
              m \in {x \in S : \A y \in S :
                       store[x].popularityScore >= store[y].popularityScore}}

\* A query without .limit(n).
TakeAll(q, n) == q

\* .limit(n)
Take(q, n) == SubSeq(q, 1, IF Len(q) < n THEN Len(q) ELSE n)

\* A filter that selects the marked documents only.
StaleQueryMarkedOnly(rec, today) == rec.needsUpdate

\* The filter of findMoviesNeedingUpdate: { $or: [{ needsUpdate: true },
\* { lastUpdated: { $lt: new Date(Date.now() - 7 days) } }] }
StaleQuery(rec, today) ==
  \/ rec.needsUpdate = TRUE
  \/ rec.lastUpdated < today - RefreshDays

\* ReviewSynthesisSchema.statics.findMoviesNeedingUpdate
findMoviesNeedingUpdate(limit) ==
  LET stale == {m \in Movies :
                  store[m].exists /\ StaleQuery(store[m], now)}
  IN  {Take(q, limit) : q \in Orderings(stale)}

\* cron.schedule('0 */6 * * *'): updatePopularMovies(10), up to the await
\* of findMoviesNeedingUpdate.
CronStart(n) ==
  /\ NextSlot \in Slots
  /\ calls' = [calls EXCEPT ![NextSlot] =
                 [NewCall("cron", "cron", 1, TRUE, "u_find")
                    EXCEPT !.limit = n]]
  /\ UNCHANGED <<store, isProcessing, faults, aside>>

\* updatePopularMovies, lines 239-245: the query settled; start on the
\* first movie.  A rejection ends the job (outer catch, line 252).
CronFind(c) ==
  /\ calls[c].pc = "u_find"
  /\ \E fault \in BOOLEAN :
       /\ DbOutcome(fault)
       /\ \E q \in findMoviesNeedingUpdate(calls[c].limit) :
            calls' = [calls EXCEPT ![c] =
              IF fault
              THEN [calls[c] EXCEPT !.pc = "done", !.cause = "db"]
              ELSE CronAdvance([calls[c] EXCEPT !.batch = q, !.queue = q],
                               isProcessing)]
  /\ UNCHANGED <<store, isProcessing, aside>>

\* updatePopularMovies, line 247: the 2000 ms delay after a movie settled.
CronDelay(c) ==
  /\ calls[c].pc = "u_delay"
  /\ calls' = [calls EXCEPT ![c] = CronAdvance(calls[c], isProcessing)]
  /\ UNCHANGED <<store, isProcessing, faults, aside>>

\* ------------------------------------------------------------------ Next
Next ==
  \/ \E m \in Requested : GetStart(m)
  \/ \E m \in Requested : PostStart(m)
  \/ \E m \in Requested : MarkForUpdate(m)
  \/ CronStart(CronLimit)
  \/ \E c \in Slots : GetFind(c)
  \/ \E c \in Slots : GetSave(c)
  \/ \E c \in Slots : GenFind(c)
  \/ \E c \in Slots : GenDetails(c)
  \/ \E c \in Slots : GenSaveStarted(c)
  \/ \E c \in Slots : GenSaveCollection(c)
  \/ \E c \in Slots : GenCollect(c)
  \/ \E c \in Slots : GenSaveZero(c)
  \/ \E c \in Slots : GenSaveAnalysis(c)
  \/ \E c \in Slots : GenAnalyze(c)
  \/ \E c \in Slots : GenSaveCompleted(c)
  \/ \E c \in Slots : CatchFind(c)
  \/ \E c \in Slots : CatchSave(c)
  \/ \E c \in Slots : CronFind(c)
  \/ \E c \in Slots : CronDelay(c)

Spec == Init /\ [][Next]_vars


\* ------------------------------------------------ the liveness scenario
\* Forced generations started by the POST handler.  Every awaited promise
\* with a bounded wait settles: the database operations, fetchMovieDetails
\* (timeout: 8000) and analyzeReviews (its only request has timeout:
\* 10000).  collectAllReviews waits for axios requests made without a
\* timeout, so nothing makes it settle.
LiveNext ==
  \/ \E m \in Requested : PostStart(m)
  \/ \E c \in Slots : GenFind(c)
  \/ \E c \in Slots : GenDetails(c)
  \/ \E c \in Slots : GenSaveStarted(c)
  \/ \E c \in Slots : GenSaveCollection(c)
  \/ \E c \in Slots : GenCollect(c)
  \/ \E c \in Slots : GenSaveZero(c)
  \/ \E c \in Slots : GenSaveAnalysis(c)
  \/ \E c \in Slots : GenAnalyze(c)
  \/ \E c \in Slots : GenSaveCompleted(c)
  \/ \E c \in Slots : CatchFind(c)
  \/ \E c \in Slots : CatchSave(c)

Fairness ==
  \A c \in Slots :
    /\ WF_vars(GenFind(c))
    /\ WF_vars(GenDetails(c))
    /\ WF_vars(GenSaveStarted(c))
    /\ WF_vars(GenSaveCollection(c))
    /\ WF_vars(GenSaveZero(c))
    /\ WF_vars(GenSaveAnalysis(c))
    /\ WF_vars(GenAnalyze(c))
    /\ WF_vars(GenSaveCompleted(c))
    /\ WF_vars(CatchFind(c))
    /\ WF_vars(CatchSave(c))

LiveSpec == Init /\ [][LiveNext]_vars /\ Fairness

\* ------------------------------------------------ the scheduler alone
\* Ticks of updatePopularMovies over a collection in which every movie can
\* have a document, with the batch limits that do and do not cut the
\* batch, and markForUpdate calls in between.
Limits == {1, 2, CronLimit}

\* cron.schedule: the callback fires and calls updatePopularMovies.
Tick(n) ==
  /\ Cardinality({c \in Slots : calls[c].entry = "cron"}) < MaxTicks
  /\ CronStart(n)

SchedInit ==
  /\ store \in InitStores(Movies)
  /\ isProcessing = [s \in Services |-> {}]
  /\ calls = [c \in Slots |-> IdleCall]
  /\ faults = 0
  /\ collector = IdleCollector
  /\ rating = IdleRating
  /\ analyzer = IdleAnalyzer

SchedNext ==
  \/ \E n \in Limits : Tick(n)
  \/ \E m \in Movies : MarkForUpdate(m)
  \/ \E c \in Slots : CronFind(c)
  \/ \E c \in Slots : CronDelay(c)
  \/ \E c \in Slots : GenFind(c)
  \/ \E c \in Slots : GenDetails(c)
  \/ \E c \in Slots : GenSaveStarted(c)
  \/ \E c \in Slots : GenSaveCollection(c)
  \/ \E c \in Slots : GenCollect(c)
  \/ \E c \in Slots : GenSaveZero(c)
  \/ \E c \in Slots : GenSaveAnalysis(c)
  \/ \E c \in Slots : GenAnalyze(c)
  \/ \E c \in Slots : GenSaveCompleted(c)
  \/ \E c \in Slots : CatchFind(c)
  \/ \E c \in Slots : CatchSave(c)

SchedSpec == SchedInit /\ [][SchedNext]_vars

\* ------------------------------------------------ the recurring scheduler
\* cron.schedule fires the callback again every 6 hours, whether or not an
\* earlier updatePopularMovies is still running.  Two documents, and a
\* batch limit one below the number of documents (the deployed limit is
\* 10; the query cuts whenever more than limit documents are stale).
TickMovies == {1, 2}
TickLimit == 1

\* processingLog only grows: ticks are followed while no document's log
\* is longer than MaxLog.
MaxLog == 4
LogBudget == \A m \in Movies : Len(store[m].log) <= MaxLog

\* The callback fires: a first tick in a free slot, or the next tick after
\* the one of slot c has returned.
Fire(c) ==
  /\ \/ calls[c].pc = "idle" /\ c = NextSlot
     \/ calls[c].entry = "cron" /\ calls[c].pc = "done"
  /\ LogBudget
  /\ calls' = [calls EXCEPT ![c] =
                 [NewCall("cron", "cron", 1, TRUE, "u_find")
                    EXCEPT !.limit = TickLimit]]
  /\ UNCHANGED <<store, isProcessing, faults, aside>>

TickInit ==
  /\ store \in InitStores(TickMovies)
  /\ isProcessing = [s \in Services |-> {}]
  /\ calls = [c \in Slots |-> IdleCall]
  /\ faults = 0
  /\ collector = IdleCollector
  /\ rating = IdleRating
  /\ analyzer = IdleAnalyzer

TickNext ==
  \/ \E c \in Slots : Fire(c)
  \/ \E c \in Slots : CronFind(c)
  \/ \E c \in Slots : CronDelay(c)
  \/ \E c \in Slots : GenFind(c)
  \/ \E c \in Slots : GenDetails(c)
  \/ \E c \in Slots : GenSaveStarted(c)
  \/ \E c \in Slots : GenSaveCollection(c)
  \/ \E c \in Slots : GenCollect(c)
  \/ \E c \in Slots : GenSaveZero(c)
  \/ \E c \in Slots : GenSaveAnalysis(c)
  \/ \E c \in Slots : GenAnalyze(c)
  \/ \E c \in Slots : GenSaveCompleted(c)
  \/ \E c \in Slots : CatchFind(c)
  \/ \E c \in Slots : CatchSave(c)

\* The timer fires, the 2000 ms delay elapses and every promise with a
\* bounded wait settles; collectAllReviews (requests without a timeout)
\* need not.
TickFairness ==
  \A c \in Slots :
    /\ WF_vars(Fire(c))
    /\ WF_vars(CronFind(c))
    /\ WF_vars(CronDelay(c))
    /\ WF_vars(GenFind(c))
    /\ WF_vars(GenDetails(c))
    /\ WF_vars(GenSaveStarted(c))
    /\ WF_vars(GenSaveCollection(c))
    /\ WF_vars(GenSaveZero(c))
    /\ WF_vars(GenSaveAnalysis(c))
    /\ WF_vars(GenAnalyze(c))
    /\ WF_vars(GenSaveCompleted(c))
    /\ WF_vars(CatchFind(c))
    /\ WF_vars(CatchSave(c))

TickSpec == TickInit /\ [][TickNext]_vars /\ TickFairness

\* ------------------------------------------------ the collector alone
\* One collectAllReviews invocation, over every outcome of every request
\* of the four sources.
CollectInit ==
  /\ store = [m \in Movies |-> NoRec]
  /\ isProcessing = [s \in Services |-> {}]
  /\ calls = [c \in Slots |-> IdleCall]
  /\ faults = 0
  /\ collector = IdleCollector
  /\ rating = IdleRating
  /\ analyzer = IdleAnalyzer

CollectNext ==
  \/ collectAllReviews
  \/ collectTMDbReviews
  \/ collectRedditReviews
  \/ collectLetterboxdSearch
  \/ collectLetterboxdReviews
  \/ collectInternalReviews
  \/ collectAllReviewsReturn

CollectSpec == CollectInit /\ [][CollectNext]_vars

\* ------------------------------------------- extractRatingFromText alone
RatingInit ==
  /\ store = [m \in Movies |-> NoRec]
  /\ isProcessing = [s \in Services |-> {}]
  /\ calls = [c \in Slots |-> IdleCall]
  /\ faults = 0
  /\ collector = IdleCollector
  /\ rating = IdleRating
  /\ analyzer = IdleAnalyzer

RatingNext ==
  \/ ExtractCall
  \/ ExtractReturn

RatingSpec == RatingInit /\ [][RatingNext]_vars

\* ------------------------------------------------- analyzeReviews alone
\* One analyzeReviews invocation over every input list and every answer of
\* the summarization provider, and the featured reviews made of it.
AnalyzeInit ==
  /\ store = [m \in Movies |-> NoRec]
  /\ isProcessing = [s \in Services |-> {}]
  /\ calls = [c \in Slots |-> IdleCall]
  /\ faults = 0
  /\ collector = IdleCollector
  /\ rating = IdleRating
  /\ analyzer \in {[IdleAnalyzer EXCEPT !.reviews = l] : l \in Inputs}

AnalyzeNext ==
  \/ AnalyzeCall
  \/ AnalyzeReturn
  \/ AssignFeatured

AnalyzeSpec == AnalyzeInit /\ [][AnalyzeNext]_vars

\* ------------------------------------------------------------- properties
IsPrefix(a, b) == Len(a) <= Len(b) /\ SubSeq(b, 1, Len(a)) = a

\* The invocation in slot c is inside a run it was admitted to (between
\* isProcessing.add and the return or rethrow).
Admitted(c) == calls[c].pc \in RunPcs /\ calls[c].admitted

\* The step ends the generateSynthesis invocation of slot c.
RunEnds(c) ==
  /\ calls[c].pc \in RunPcs
  /\ calls'[c].returned = calls[c].returned + 1

\* C1: on one service object at most one generateSynthesis invocation per
\* movie id is admitted (past the isProcessing check, running) at a time.
C1_AtMostOneAdmitted ==
  \A s \in Services : \A m \in Movies :
    Cardinality({c \in Slots : Admitted(c) /\ calls[c].svc = s
                               /\ calls[c].movieId = m}) <= 1

\* C2: a run started from the HTTP path and a run started by the scheduler
\* are never admitted for the same movie id at the same time.
C2_PathsShareGuard ==
  \A c, d \in Slots :
    (Admitted(c) /\ Admitted(d) /\ calls[c].svc = "http"
       /\ calls[d].svc = "cron")
    => calls[c].movieId # calls[d].movieId

\* C3: whenever an admitted run returns or rethrows, on whichever exit
\* path, its movie id is not in isProcessing of its service afterwards; and
\* an id is in isProcessing only while an admitted run for it is in flight.
C3_Held ==
  \A s \in Services : \A m \in isProcessing[s] :
    \E c \in Slots : Admitted(c) /\ calls[c].svc = s /\ calls[c].movieId = m

C3_ReleasedOnEveryExit ==
  [][/\ \A c \in Slots :
          (RunEnds(c) /\ calls[c].admitted)
          => calls[c].movieId \notin isProcessing'[calls[c].svc]
     /\ C3_Held']_vars

\* A run ended through the inner catch (the save of the failed status
\* rejected) and another one ended normally; nothing is held.
C3_Witness ==
  /\ \E c \in Slots : calls[c].pc = "done" /\ calls[c].how = "saveError"
  /\ \E c \in Slots : calls[c].pc = "done"
                      /\ calls[c].how \in {"success", "zero"}
  /\ \A s \in Services : isProcessing[s] = {}

\* C4: every admitted run eventually releases its isProcessing entry.
C4_EventuallyReleased ==
  \A s \in Services : \A m \in Movies :
    (m \in isProcessing[s]) ~> (m \notin isProcessing[s])

\* C5: when getSynthesis finds a completed, stale document, it sets
\* needsUpdate on it, starts generateSynthesis(id, true) without awaiting
\* it and returns the document it found: at its return the forced run has
\* only reached its first await (or was refused by the guard).
C5_TakesSwr(c) ==
  /\ calls[c].pc = "s_save"
  /\ calls'[c].pc # "s_save"
  /\ calls'[c].via # "error"

C5_StaleWhileRevalidate ==
  [][\A c \in Slots :
       C5_TakesSwr(c) =>
         /\ calls'[c].ret = "doc"
         /\ calls'[c].retDoc.exists
         /\ calls'[c].retDoc.status = "completed"
         /\ calls'[c].retDoc.needsUpdate
         /\ calls'[c].retDoc.log = calls[c].doc.log
         /\ "needsUpdate" \in calls[c].doc.dirty
              => store'[calls[c].movieId].needsUpdate
         /\ calls'[c].force
         /\ \/ calls'[c].pc = "g_find"
            \/ calls'[c].pc = "done" /\ calls'[c].how = "noop"]_vars

\* getSynthesis has returned the stale document and its background run is
\* in flight.
C5_Witness ==
  \E c \in Slots :
    /\ calls[c].entry = "get" /\ calls[c].via = "swr"
    /\ calls[c].ret = "doc" /\ calls[c].retDoc.needsUpdate
    /\ calls[c].pc \in RunPcs

\* C6: a getSynthesis that reads the store while the background run of a
\* stale-while-revalidate is in flight returns the stored document: never
\* null, and never after awaiting a run.
C6_NeverEmptyDuringRevalidation ==
  \A c \in Slots :
    (calls[c].entry = "get" /\ calls[c].regen /\ calls[c].ret # "none"
       /\ calls[c].via # "error")
    => calls[c].ret = "doc" /\ calls[c].via \in {"fresh", "swr"}

\* C7: getSynthesis for a movie without a document, with the metadata
\* lookup, the database and the analysis working and no other run in the
\* way, returns the document it created, which is then in the store.
C7_FirstAccessCreates ==
  \A c \in Slots :
    (calls[c].entry = "get" /\ calls[c].ret # "none" /\ ~calls[c].hadRecord
       /\ calls[c].via = "awaited" /\ calls[c].how # "noop"
       /\ calls[c].cause \notin {"db", "details", "analysis"})
    => /\ calls[c].ret = "doc"
       /\ store[calls[c].movieId].exists

\* C8: getSynthesis awaits generateSynthesis only when it found no
\* document.
C8_AwaitsOnlyWithoutRecord ==
  \A c \in Slots :
    (calls[c].entry = "get" /\ calls[c].via = "awaited")
    => ~calls[c].hadRecord

\* C9: the stored status only changes to processing (from pending,
\* completed or failed) and from processing to completed or failed; and a
\* run that sets status processing holds a document whose status was not
\* processing already.
C9_StatusTransitions ==
  [][/\ \A m \in Movies :
          (store[m].exists /\ store'[m].status # store[m].status)
          => \/ store'[m].status = "processing"
             \/ /\ store[m].status = "processing"
                /\ store'[m].status \in {"completed", "failed"}
     /\ \A c \in Slots :
          (calls[c].pc = "g_details" /\ calls'[c].pc = "g_save1")
          => calls[c].doc.status # "processing"]_vars

\* C10: the stored processingLog only grows at its end, and no document is
\* ever removed: after every step the previous log is a prefix of the log.
C10_LogAppendOnly ==
  [][\A m \in Movies :
       /\ store[m].exists => store'[m].exists
       /\ IsPrefix(store[m].log, store'[m].log)]_vars

\* Two overlapping runs have both pushed their started entry.
C10_Witness ==
  \E m \in Movies : \E i \in 1..(Len(store[m].log) - 1) :
    /\ store[m].log[i] = "started"
    /\ store[m].log[i + 1] = "started"

\* The step is taken by the call of slot c (a markForUpdate only notes its
\* mark on the call).
Acts(c) ==
  [calls'[c] EXCEPT !.marked = FALSE] # [calls[c] EXCEPT !.marked = FALSE]

\* The last entry of a log ("none" for the empty log).
LastEntry(log) == IF log = << >> THEN "none" ELSE log[Len(log)]

\* C11: a run whose collection returns no review takes the zero-review
\* branch with status completed, reviewCount 0 and the literal summary; its
\* save, unless the database rejects it with a driver error, stores exactly
\* that and one warning entry (no error entry), and the run returns the
\* document instead of throwing.
C11_ZeroReviewsCompletes ==
  [][\A c \in Slots :
       LET m == calls[c].movieId
       IN  /\ (calls[c].pc = "g_collect" /\ calls'[c].pc = "g_savezero")
              => /\ calls'[c].doc.status = "completed"
                 /\ calls'[c].doc.reviewCount = 0
                 /\ calls'[c].doc.summary = NoReviewsSummary
                 /\ PendingLog(calls'[c].doc) = <<"warning">>
           /\ (calls[c].pc = "g_savezero" /\ Acts(c)
                 /\ calls'[c].cause # "db")
              => /\ store'[m].status = "completed"
                 /\ store'[m].reviewCount = 0
                 /\ store'[m].summary = NoReviewsSummary
                 /\ store'[m].log = store[m].log \o <<"warning">>
                 /\ calls'[c].how = "zero"
                 /\ calls'[c].cause = "none"
                 /\ calls'[c].pc \in {"done", "u_delay"}
                 /\ (calls[c].entry = "get" /\ calls[c].via = "awaited")
                      => /\ calls'[c].ret = "doc"
                         /\ calls'[c].retDoc.status = "completed"]_vars

\* A zero-review run has returned and the store holds its result.
C11_Witness ==
  \E c \in Slots :
    /\ calls[c].how = "zero"
    /\ calls[c].pc \in {"done", "u_delay"}
    /\ store[calls[c].movieId].status = "completed"
    /\ store[calls[c].movieId].summary = NoReviewsSummary
    /\ store[calls[c].movieId].reviewCount = 0
    /\ LastEntry(store[calls[c].movieId].log) = "warning"

\* C12: every run that ends with status completed, with or without reviews,
\* has appended a completed entry, cleared needsUpdate and computed
\* popularityScore, so that the stored document does not need a refresh
\* when the run returns.
C12_CompletedRunIsFresh ==
  [][\A c \in Slots :
       LET m == calls[c].movieId
       IN  (RunEnds(c) /\ calls'[c].how \in {"success", "zero"})
           => /\ store'[m].status = "completed"
              /\ LastEntry(store'[m].log) = "completed"
              /\ ~store'[m].needsUpdate
              /\ store'[m].popularityScore =
                   calculatePopularityScore(MovieDetails(m),
                                            store'[m].reviewCount)
              /\ ~needsRefresh(store'[m], now)]_vars

\* C13: when analyzeReviews throws in an admitted run (and the database
\* works in the catch block), the run ends with the stored status failed
\* and exactly one appended error entry carrying the exception's message,
\* and rethrows.
C13_AnalysisFailureRecorded ==
  [][\A c \in Slots :
       LET m == calls[c].movieId
       IN  (RunEnds(c) /\ calls[c].admitted
              /\ calls'[c].cause = "analysis" /\ calls'[c].how # "saveError")
           => /\ calls'[c].how = "error"
              /\ store'[m].status = "failed"
              /\ store'[m].log = store[m].log \o <<ErrorEntry("analysis")>>]_vars

\* C14: when fetchMovieDetails fails the run is aborted and what it does
\* afterwards leaves the stored document as it was, apart from a started
\* log entry: status, summary and reviewCount are kept.
C14_LookupFailureLeavesRecord ==
  [][\A c \in Slots :
       LET m == calls[c].movieId
       IN  (Acts(c) /\ calls[c].cause = "details"
              /\ calls[c].pc \in CatchPcs)
           => /\ store'[m].status = store[m].status
              /\ store'[m].summary = store[m].summary
              /\ store'[m].reviewCount = store[m].reviewCount
              /\ store'[m].log \in
                   {store[m].log, store[m].log \o <<"started">>}]_vars

\* C15: no rejection of generateSynthesis is left unhandled on any call
\* path, so the unhandledRejection handler is never reached; and a
\* getSynthesis that awaited a run that threw returns null.
C15_RejectionsCaught ==
  \A c \in Slots :
    /\ calls[c].pc # "crashed"
    /\ (calls[c].entry = "get" /\ calls[c].via = "awaited"
          /\ calls[c].pc = "done"
          /\ calls[c].how \in {"error", "saveError"})
       => calls[c].ret = "null"

\* A run awaited by getSynthesis and a run started by the POST handler have
\* both thrown, and both calls are over.
C15_Witness ==
  /\ \E c \in Slots :
       /\ calls[c].entry = "get" /\ calls[c].via = "awaited"
       /\ calls[c].pc = "done" /\ calls[c].how = "error"
       /\ calls[c].ret = "null"
  /\ \E c \in Slots :
       /\ calls[c].entry = "post" /\ calls[c].pc = "done"
       /\ calls[c].how \in {"error", "saveError"}

\* The position of a source in the order of the result.
Rank(s) ==
  CASE s = "tmdb" -> 1 [] s = "reddit" -> 2 [] s = "letterboxd" -> 3
    [] s = "internal" -> 4

\* The reviews of source s in a list, in the list's order.
FromSource(reviews, s) ==
  LET Test(r) == r.source = s
  IN  SelectSeq(reviews, Test)

\* C16: collectAllReviews never raises: no collector's promise rejects, a
\* source whose request threw or answered with a malformed payload gives
\* the empty list, and what collectAllReviews returns holds exactly the
\* reviews each source gave, source by source in the order tmdb, reddit,
\* letterboxd, internal.
C16_CollectorNeverRaises ==
  /\ collector.pc \in {"idle", "waiting", "returned"}
  /\ \A s \in SourceNames :
       /\ collector.src[s].status \in {"pending", "fulfilled"}
       /\ collector.src[s].outcome \in {"exception", "malformed"}
            => /\ collector.src[s].status = "fulfilled"
               /\ collector.src[s].value = << >>
  /\ collector.pc = "returned"
       => /\ \A s \in SourceNames :
               FromSource(collector.out, s) = collector.src[s].value
          /\ \A i, j \in 1..Len(collector.out) :
               i < j => Rank(collector.out[i].source)
                          <= Rank(collector.out[j].source)

\* Two sources failed, one by an exception and one on a malformed payload,
\* and the two others gave reviews: the result holds theirs.
C16_Witness ==
  /\ collector.pc = "returned"
  /\ collector.src["tmdb"].outcome = "exception"
  /\ collector.src["reddit"].outcome = "malformed"
  /\ Len(collector.src["letterboxd"].value) = 1
  /\ Len(collector.src["internal"].value) = 1
  /\ Len(collector.out) = 2

Range(q) == {q[i] : i \in 1..Len(q)}

Min(a, b) == IF a < b THEN a ELSE b

\* The documents that need a refresh by the rule of the read path.
Stale == {m \in Movies : store[m].exists /\ needsRefresh(store[m], now)}

\* The step in which the query of tick c settles with its batch.
QuerySettles(c) ==
  /\ calls[c].pc = "u_find"
  /\ calls'[c].pc # "u_find"
  /\ calls'[c].cause # "db"

\* C17: the filter of findMoviesNeedingUpdate and needsRefresh() agree on
\* every document, whatever its status, at every age around the 7 day
\* boundary; and a query whose limit does not cut returns exactly the
\* documents for which needsRefresh() is true.
C17_SameStalenessRule ==
  [][/\ \A lu \in 0..(2 * now) : \A nu \in BOOLEAN :
          LET rec == [NoRec EXCEPT !.exists = TRUE, !.lastUpdated = lu,
                                   !.needsUpdate = nu]
          IN  StaleQuery(rec, now) <=> needsRefresh(rec, now)
     /\ \A c \in Slots :
          (QuerySettles(c) /\ calls[c].limit >= Cardinality(Movies))
          => Range(calls'[c].batch) = Stale]_vars

\* A tick has selected a document that is 8 days old and not marked, and
\* has left out a fresh one.
C17_Witness ==
  \E c \in Slots : \E m \in Range(calls[c].batch) :
    /\ calls[c].pc = "g_find"
    /\ calls[c].limit = CronLimit
    /\ store[m].lastUpdated = now - 8
    /\ ~store[m].needsUpdate
    /\ store[m].status = "failed"
    /\ \E k \in Movies \ Range(calls[c].batch) : store[k].exists

\* C18: the batch of a tick whose query settles holds min(N, number of
\* stale documents) distinct stale documents, in descending order of
\* popularityScore, and no stale document left out has a higher score than
\* one taken; the tick calls generateSynthesis(id, true) for the documents
\* of the batch in that order and for no other, and when it ends it has
\* called it for all of them.
C18_TopNInOrder ==
  [][\A c \in Slots :
       LET b == calls'[c].batch
       IN  /\ QuerySettles(c)
              => /\ Len(b) = Min(calls[c].limit, Cardinality(Stale))
                 /\ Cardinality(Range(b)) = Len(b)
                 /\ Range(b) \subseteq Stale
                 /\ \A i, j \in 1..Len(b) :
                      i < j => store[b[i]].popularityScore
                                 >= store[b[j]].popularityScore
                 /\ \A m \in Stale \ Range(b) : \A k \in Range(b) :
                      store[m].popularityScore <= store[k].popularityScore
           /\ calls'[c].entry = "cron"
              => /\ IsPrefix(calls'[c].visited, b)
                 /\ calls'[c].pc \in RunPcs
                      => /\ calls'[c].force
                         /\ calls'[c].movieId
                              = b[Len(calls'[c].visited)]
                 /\ (calls'[c].pc = "done" /\ calls'[c].cause # "db")
                      => calls'[c].visited = b]_vars

\* A tick with limit 2 over three stale documents has ended after calling
\* generateSynthesis for the two with the highest scores.
C18_Witness ==
  \E c \in Slots :
    /\ calls[c].entry = "cron" /\ calls[c].pc = "done"
    /\ calls[c].limit = 2
    /\ calls[c].batch = <<1, 3>>
    /\ calls[c].visited = <<1, 3>>
    /\ Len(calls[c].outcomes) = 2
    /\ 2 \in Stale

\* C19: when generateSynthesis throws for one movie of a batch, the loop
\* goes on: the next movie of the batch is attempted, or the tick ends if
\* there is none; the rejection never leaves updatePopularMovies.
C19_BatchGoesOn ==
  [][\A c \in Slots :
       (calls[c].entry = "cron" /\ RunEnds(c)
          /\ calls'[c].how \in {"error", "saveError"})
       => /\ calls'[c].pc # "crashed"
          /\ calls'[c].outcomes = Append(calls[c].outcomes, "error")
          /\ IF calls[c].queue = << >>
             THEN calls'[c].pc = "done"
             ELSE /\ calls'[c].visited
                       = Append(calls[c].visited, Head(calls[c].queue))
                  /\ calls'[c].movieId = Head(calls[c].queue)
                  /\ calls'[c].pc = "g_find"]_vars

\* The first movie of a batch failed and a later one was processed.
C19_Witness ==
  \E c \in Slots :
    /\ calls[c].entry = "cron" /\ calls[c].pc = "done"
    /\ Len(calls[c].outcomes) = 3
    /\ calls[c].outcomes[1] = "error"
    /\ calls[c].outcomes[3] = "doc"

\* C20: the loop of updatePopularMovies starts the generateSynthesis call
\* of the next movie only after the 2000 ms delay that follows the previous
\* call, however that call settled.
C20_PacedAfterEveryItem ==
  [][\A c \in Slots :
       (calls[c].entry = "cron"
          /\ Len(calls'[c].visited) > Len(calls[c].visited)
          /\ calls[c].visited # << >>)
       => calls[c].pc = "u_delay"]_vars

\* The step in which a generateSynthesis call of slot c returns at the
\* isProcessing check.
NoOp(c) ==
  /\ calls'[c].returned = calls[c].returned + 1
  /\ calls'[c].how = "noop"

\* C21: a generateSynthesis call made while its id is in isProcessing goes
\* no further than the check: it returns null without an exception and
\* changes neither the stored documents (the caller getSynthesis has only
\* saved its needsUpdate mark) nor isProcessing (the caller's catch block
\* has only removed the id of the run that just ended), with force true as
\* with force false.
C21_NoOpChangesNothing ==
  [][\A c \in Slots :
       LET m == calls'[c].movieId
           s == calls'[c].svc
       IN  /\ (Acts(c) /\ calls'[c].pc = "g_find")
              => m \notin isProcessing'[s]
           /\ NoOp(c)
              => /\ m \in isProcessing'[s]
                 /\ calls'[c].cause = "none"
                 /\ calls'[c].pc \in {"done", "u_delay"}
                 /\ calls'[c].via = "awaited" => calls'[c].ret = "null"
                 /\ \A k \in Movies :
                      store'[k] = IF calls[c].pc = "s_save" /\ k = m
                                  THEN [store[k] EXCEPT !.needsUpdate = TRUE]
                                  ELSE store[k]
                 /\ \A t \in Services :
                      isProcessing'[t] =
                        IF calls[c].pc \in CatchPcs /\ t = s
                        THEN isProcessing[t] \ {calls[c].movieId}
                        ELSE isProcessing[t]]_vars

\* An unforced call, awaited by getSynthesis, has returned at the check
\* while the run that holds the id has saved status processing.
C21_Witness ==
  \E c \in Slots :
    /\ calls[c].how = "noop" /\ calls[c].pc = "done"
    /\ ~calls[c].force /\ calls[c].ret = "null"
    /\ calls[c].movieId \in isProcessing[calls[c].svc]
    /\ store[calls[c].movieId].status = "processing"

\* C22: extractRatingFromText returns the number of the first pattern that
\* matches, doubled exactly when that pattern is the /5 or the stars
\* pattern, within 0..10; null when no pattern matches.
C22_DoubledByMatchedPattern ==
  rating.pc = "returned"
  => /\ rating.pattern = 0 <=> rating.out = Null
     /\ rating.pattern # 0
          => LET r == Captured(rating.pattern, rating.text)
             IN  /\ rating.out \in 0..10
                 /\ rating.out = Clamp(IF rating.pattern \in {2, 3}
                                       THEN r * 2 ELSE r)


\* C27: a stored record has status "processing" only while a generation
\* run for its movie is in flight: when no service object holds the movie
\* in isProcessing and every run admitted for it has returned or thrown,
\* the stored status is not "processing".
C27_ProcessingOnlyInFlight ==
  \A m \in Movies :
    (store[m].exists /\ store[m].status = "processing")
      => \/ \E s \in Services : m \in isProcessing[s]
         \/ \E c \in Slots : Admitted(c) /\ calls[c].movieId = m


\* C28: a markForUpdate that reaches the store while a generation run for
\* the movie is in flight is not lost: when that run completes, the stored
\* record has needsUpdate = TRUE.
C28_MarkSurvivesRun ==
  [][\A c \in Slots :
       (/\ calls[c].pc = "g_save4"
        /\ calls[c].marked
        /\ RunEnds(c)
        /\ calls'[c].how = "success")
         => store'[calls[c].movieId].needsUpdate]_vars


\* C30: every stored record with status "completed" is consistent with the
\* run that completed it: reviewCount equals the sum of its per-source
\* counts and the total of its sentiment breakdown.
C30_CompletedIsConsistent ==
  \A m \in Movies :
    (store[m].exists /\ store[m].status = "completed")
      => /\ store[m].reviewCount = store[m].sources
         /\ store[m].reviewCount = store[m].breakdown


\* A scheduler tick has called generateSynthesis for movie m.
Passed(m) ==
  \E c \in Slots : calls[c].entry = "cron" /\ m \in Range(calls[c].visited)

\* C29: when the scheduler keeps ticking, every stale record is eventually
\* passed to generateSynthesis by a tick.
C29_NoStarvation ==
  ([]<>(\E c \in Slots : calls[c].pc = "u_find"))
    => \A m \in TickMovies : (m \in Stale) ~> Passed(m)


\* The sum of the comparative scores of the collected reviews.
RECURSIVE TotalComparative(_)
TotalComparative(s) ==
  IF s = << >> THEN 0 ELSE Head(s).comparative + TotalComparative(Tail(s))

\* Class k is the class of the score num/den (den > 0) with inclusive
\* lower bounds 0.5, 0.1, -0.1, -0.5.
ClassOf(k, num, den) ==
  /\ k \in Classes
  /\ k = "very_positive" <=> 100 * num >= 50 * den
  /\ k = "positive" <=> (100 * num >= 10 * den /\ 100 * num < 50 * den)
  /\ k = "neutral" <=> (100 * num >= -10 * den /\ 100 * num < 10 * den)
  /\ k = "negative" <=> (100 * num >= -50 * den /\ 100 * num < -10 * den)
  /\ k = "very_negative" <=> 100 * num < -50 * den

Analysed == analyzer.pc \in {"returned", "assigned"}

\* C23: every review gets exactly one class, by inclusive lower bounds
\* (0.5 very_positive, 0.1 positive, -0.1 neutral, -0.5 negative, below
\* that very_negative), and the overall class is the class of the mean
\* comparative score of the reviews.
C23_InclusiveBounds ==
  (Analysed /\ Len(analyzer.reviews) > 0)
    => LET raw == analyzer.analysis.rawReviews
       IN  /\ \A i \in 1..Len(raw) :
                /\ raw[i].sentiment.comparative
                     = analyzer.reviews[i].comparative
                /\ ClassOf(raw[i].sentiment.classification,
                           raw[i].sentiment.comparative, 100)
           /\ ClassOf(analyzer.analysis.overall,
                      TotalComparative(analyzer.reviews),
                      100 * Len(analyzer.reviews))

\* Reviews at the bounds 0.5 and -0.1 got very_positive and neutral, and
\* their mean 0.2 made the record positive.
C23_Witness ==
  /\ analyzer.pc = "returned"
  /\ Len(analyzer.reviews) = 2
  /\ analyzer.reviews[1].comparative = 50
  /\ analyzer.reviews[2].comparative = -10
  /\ analyzer.analysis.rawReviews[1].sentiment.classification
       = "very_positive"
  /\ analyzer.analysis.rawReviews[2].sentiment.classification = "neutral"
  /\ analyzer.analysis.overall = "positive"

\* C24: in each degraded case (the provider fails, it times out, or the
\* combined text is shorter than 100 characters: answer "none", no request
\* made) summarizeReviews returns the templated fallback summary.
C24_DegradedGivesTemplate ==
  (/\ Analysed
   /\ Len(analyzer.reviews) > 0
   /\ analyzer.answer \in {"error", "timeout", "none"})
    => /\ analyzer.analysis.summary.kind = "template"
       /\ analyzer.analysis.summary.total = Len(analyzer.reviews)

\* C25: the percentage of a templated summary is round(100 * reviews
\* classified positive or very_positive / reviews analysed), by the
\* classifications counted in the sentiment breakdown.
C25_PercentageFromBreakdown ==
  (Analysed /\ analyzer.analysis.summary.kind = "template")
    => analyzer.analysis.summary.percent
         = RoundPercent(analyzer.analysis.breakdown["very_positive"]
                          + analyzer.analysis.breakdown["positive"],
                        analyzer.analysis.reviewCount)

\* The reviews of the run, by author, whose content is longer than 100
\* characters.
LongAuthors ==
  {i \in 1..Len(analyzer.reviews) : Long(analyzer.reviews[i])}

\* C26: the featured reviews are min(3, number of long reviews) distinct
\* long reviews of the run, in descending rank, and no long review left
\* out ranks above a featured one.
C26_FeaturedAreTopRanked ==
  analyzer.pc = "assigned"
    => LET f == analyzer.featured
           all == analyzer.reviews
           n == Cardinality(LongAuthors)
       IN  /\ Len(f) = IF n < FeaturedCount THEN n ELSE FeaturedCount
           /\ \A j \in 1..Len(f) : f[j].author \in LongAuthors
           /\ \A j, k \in 1..Len(f) :
                /\ j # k => f[j].author # f[k].author
                /\ j < k => Score(all[f[j].author]) >= Score(all[f[k].author])
           /\ \A i \in LongAuthors \ {f[j].author : j \in 1..Len(f)} :
                \A j \in 1..Len(f) :
                  Score(all[i]) <= Score(all[f[j].author])

====
